---- MODULE Spec2Model ----
(***************************************************************************)
(* IPMIrage: a sequential provisioning run (src/IPMIrage.py).  The mapping *)
(* file is validated, the interface and the DHCP pool are set up, and for  *)
(* every validated entry the lease file is polled and the device           *)
(* configured.  Strings are sequences of one-character strings.            *)
(***************************************************************************)
EXTENDS Integers, Sequences, FiniteSets, TLC

VARIABLES
    mac_address,    \* format_mac_address: the argument (a string)
    formatted_mac,  \* format_mac_address: <<the value returned>>, <<>> before
    csv_file,       \* the rows csv.reader yields, the header first
    parsed,         \* parse_csv_file: <<what the call did>>, <<>> before
    pc,             \* the orchestrator's state (main)
    trace,          \* the orchestrator states entered so far, in order
    exit_status,    \* <<the process exit status>>, <<>> while running
    valid_entries,  \* main: valid_entries
    iface,          \* the interface: "untouched", "flushed", "addressed", "up"
    pool,           \* the DHCP pool: "none", "configured", "running"
    leases_file,    \* the lease file: exists, readable, lines
    idx,            \* main: the position of the for loop in valid_entries
    phase,          \* main: "resolve" (the while loop) or "after" it
    attempts,       \* main: attempts
    dhcp_ip,        \* main: dhcp_ip
    first_read,     \* the lease file as the entry's first scan read it
    scans,          \* get_dhcp_ip calls made for the current entry
    sleeps,         \* time.sleep(5) calls made for the current entry
    total_scans,    \* get_dhcp_ip calls made in the run
    resolved,       \* per entry: what the while loop ended with
    calls,          \* the configure_ipmi_bash calls: entry, arguments, result
    success_count   \* main: success_count

vars == <<mac_address, formatted_mac, csv_file, parsed, pc, trace, exit_status,
          valid_entries, iface, pool, leases_file, idx, phase, attempts,
          dhcp_ip, first_read, scans, sleeps, total_scans, resolved, calls,
          success_count>>

\* Python's None where a string is expected: no string the code handles is empty
None == <<>>

(***************************************************************************)
(* Strings                                                                 *)
(***************************************************************************)
HexDigits == {"0", "1", "2", "3", "4", "5", "6", "7", "8", "9",
              "A", "B", "C", "D", "E", "F"}

\* str.upper() on one character (the letters the model's alphabets hold)
UpperChar(c) ==
    CASE c = "a" -> "A" [] c = "b" -> "B" [] c = "c" -> "C" [] c = "d" -> "D"
      [] c = "e" -> "E" [] c = "f" -> "F" [] c = "g" -> "G" [] c = "x" -> "X"
      [] OTHER -> c

\* str.lower() on one character
LowerChar(c) ==
    CASE c = "A" -> "a" [] c = "B" -> "b" [] c = "C" -> "c" [] c = "D" -> "d"
      [] c = "E" -> "e" [] c = "F" -> "f" [] c = "G" -> "g" [] c = "X" -> "x"
      [] OTHER -> c

Upper(s) == [i \in 1..Len(s) |-> UpperChar(s[i])]

Lower(s) == [i \in 1..Len(s) |-> LowerChar(s[i])]

\* s.replace(c, '')
RemoveChar(s, c) == SelectSeq(s, LAMBDA x : x # c)

\* what str.strip() and int() take for whitespace
PyWhitespace == {" ", "\t", "\n", "\r"}

RECURSIVE LStrip(_)
LStrip(s) == IF s # <<>> /\ Head(s) \in PyWhitespace THEN LStrip(Tail(s)) ELSE s

RECURSIVE RStrip(_)
RStrip(s) ==
    IF s # <<>> /\ s[Len(s)] \in PyWhitespace
    THEN RStrip(SubSeq(s, 1, Len(s) - 1)) ELSE s

\* the digits of an int literal: digits of the base, single underscores
\* between digits only
RECURSIVE DigitsWithUnderscores(_, _, _)
DigitsWithUnderscores(s, digits, prevDigit) ==
    IF s = <<>> THEN prevDigit
    ELSE IF Head(s) \in digits THEN DigitsWithUnderscores(Tail(s), digits, TRUE)
    ELSE IF Head(s) = "_" THEN prevDigit /\ DigitsWithUnderscores(Tail(s), digits, FALSE)
    ELSE FALSE

\* int(s, 16) returns (TRUE) or raises ValueError (FALSE): surrounding
\* whitespace, a sign, a 0x prefix and underscores between digits are
\* accepted by the builtin
IntBase16Parses(s) ==
    LET t == RStrip(LStrip(s))
        u == IF t # <<>> /\ Head(t) \in {"+", "-"} THEN Tail(t) ELSE t
        prefixed == Len(u) >= 2 /\ u[1] = "0" /\ u[2] \in {"x", "X"}
        v == IF prefixed THEN SubSeq(u, 3, Len(u)) ELSE u
        w == IF prefixed /\ v # <<>> /\ Head(v) = "_" THEN Tail(v) ELSE v
    IN  w # <<>> /\ Head(w) # "_"
        /\ DigitsWithUnderscores(w, HexDigits \cup {"a", "b", "c", "d", "e", "f"}, FALSE)

(***************************************************************************)
(* format_mac_address                                                      *)
(***************************************************************************)
MacLen == 12

\* ':'.join(mac[i:i+2] for i in range(0, 12, 2))
JoinPairs(mac) ==
    [k \in 1..17 |-> IF k % 3 = 0 THEN ":" ELSE mac[2 * ((k - 1) \div 3) + ((k - 1) % 3) + 1]]

format_mac_address(m) ==
    LET mac == Upper(RemoveChar(RemoveChar(RemoveChar(RemoveChar(m, ":"), "-"), "."), " "))
    IN  IF Len(mac) # MacLen THEN None
        ELSE IF IntBase16Parses(mac) THEN JoinPairs(mac)
        ELSE None

(***************************************************************************)
(* validate_ip_address and the netmask check (the ipaddress module)        *)
(***************************************************************************)
DecDigits == {"0", "1", "2", "3", "4", "5", "6", "7", "8", "9"}

DigitValue(c) ==
    CASE c = "0" -> 0 [] c = "1" -> 1 [] c = "2" -> 2 [] c = "3" -> 3
      [] c = "4" -> 4 [] c = "5" -> 5 [] c = "6" -> 6 [] c = "7" -> 7
      [] c = "8" -> 8 [] c = "9" -> 9

\* int(s) of a string of decimal digits
RECURSIVE DecimalValue(_)
DecimalValue(s) ==
    IF s = <<>> THEN 0
    ELSE 10 * DecimalValue(SubSeq(s, 1, Len(s) - 1)) + DigitValue(s[Len(s)])

AllIn(s, chars) == \A i \in 1..Len(s) : s[i] \in chars

\* s.split(sep) for a one-character separator
RECURSIVE SplitOn(_, _)
SplitOn(s, sep) ==
    IF \A i \in 1..Len(s) : s[i] # sep THEN <<s>>
    ELSE LET k == CHOOSE i \in 1..Len(s) :
                      s[i] = sep /\ \A j \in 1..(i - 1) : s[j] # sep
         IN  <<SubSeq(s, 1, k - 1)>> \o SplitOn(SubSeq(s, k + 1, Len(s)), sep)

\* IPv4Address._parse_octet returns (TRUE) or raises
OctetParses(o) ==
    /\ o # <<>>
    /\ AllIn(o, DecDigits)
    /\ Len(o) <= 3
    /\ (o # <<"0">> => o[1] # "0")
    /\ DecimalValue(o) <= 255

\* IPv4Address(s) is constructed (TRUE) or raises AddressValueError
IPv4Parses(s) ==
    /\ s # <<>>
    /\ LET octets == SplitOn(s, ".")
       IN  Len(octets) = 4 /\ \A i \in 1..4 : OctetParses(octets[i])

HextetChars == HexDigits \cup {"a", "b", "c", "d", "e", "f"}

HextetParses(h) == h # <<>> /\ AllIn(h, HextetChars) /\ Len(h) <= 4

\* IPv6Address(s) is constructed (TRUE) or raises AddressValueError
IPv6Parses(s) ==
    /\ s # <<>>
    /\ AllIn(s, HextetChars \cup {":", "."})
    /\ LET raw == SplitOn(s, ":")
           last == raw[Len(raw)]
           embedded == \E i \in 1..Len(last) : last[i] = "."
           \* an IPv4 tail stands for two hextets
           parts == IF embedded
                    THEN SubSeq(raw, 1, Len(raw) - 1) \o <<<<"0">>, <<"0">>>>
                    ELSE raw
           n == Len(parts)
           skips == {i \in 2..(n - 1) : parts[i] = <<>>}
       IN  /\ Len(raw) >= 3
           /\ embedded => IPv4Parses(last)
           /\ n <= 9
           /\ Cardinality(skips) <= 1
           /\ IF skips # {}
              THEN LET k == CHOOSE i \in skips : TRUE
                       hi == (k - 1) - (IF parts[1] = <<>> THEN 1 ELSE 0)
                       lo == (n - k) - (IF parts[n] = <<>> THEN 1 ELSE 0)
                   IN  /\ parts[1] = <<>> => hi = 0
                       /\ parts[n] = <<>> => lo = 0
                       /\ 8 - (hi + lo) >= 1
                       /\ \A i \in 1..hi : HextetParses(parts[i])
                       /\ \A i \in (n - lo + 1)..n : HextetParses(parts[i])
              ELSE /\ n = 8
                   /\ \A i \in 1..n : HextetParses(parts[i])

\* ipaddress.ip_address(s) inside try/except ValueError
validate_ip_address(ip_address) == IPv4Parses(ip_address) \/ IPv6Parses(ip_address)

\* the eight bits of an octet, most significant first
OctetBits(v) == [i \in 1..8 |-> (v \div (2 ^ (8 - i))) % 2]

\* _ip_int_from_string as the 32 bits of the address
AddressBits(s) ==
    LET octets == SplitOn(s, ".")
    IN  OctetBits(DecimalValue(octets[1])) \o OctetBits(DecimalValue(octets[2]))
        \o OctetBits(DecimalValue(octets[3])) \o OctetBits(DecimalValue(octets[4]))

\* _prefix_from_ip_int returns: the bits are ones followed by zeroes
OnesThenZeroes(bits) ==
    \A i \in 1..Len(bits) : \A j \in 1..Len(bits) : (i < j /\ bits[j] = 1) => bits[i] = 1

MaxPrefixLen == 32

RECURSIVE StripLeadingZeroes(_)
StripLeadingZeroes(s) ==
    IF s # <<>> /\ Head(s) = "0" THEN StripLeadingZeroes(Tail(s)) ELSE s

\* IPv4Network._make_netmask: a prefix length, a netmask or a hostmask
MakeNetmaskParses(arg) ==
    \/ /\ arg # <<>> /\ AllIn(arg, DecDigits)
       /\ LET digits == StripLeadingZeroes(arg)
          IN  Len(digits) <= 2 /\ DecimalValue(digits) <= MaxPrefixLen
    \/ /\ IPv4Parses(arg)
       /\ \/ OnesThenZeroes(AddressBits(arg))
          \/ OnesThenZeroes([i \in 1..32 |-> 1 - AddressBits(arg)[i]])

\* ipaddress.IPv4Network(f"0.0.0.0/{netmask}") inside try/except ValueError
netmask_valid(netmask) ==
    /\ \A i \in 1..Len(netmask) : netmask[i] # "/"
    /\ MakeNetmaskParses(netmask)

(***************************************************************************)
(* The strings the inputs are built from                                   *)
(***************************************************************************)
MacA_dashes == <<"A", "A", "-", "B", "B", "-", "C", "C", "-", "D", "D", "-", "E", "E", "-", "F", "F">>

MacA == <<"A", "A", ":", "B", "B", ":", "C", "C", ":", "D", "D", ":", "E", "E", ":", "F", "F">>

MacA_lower == <<"a", "a", ":", "b", "b", ":", "c", "c", ":", "d", "d", ":", "e", "e", ":", "f", "f">>

MacB_dots == <<"0", "a", "1", "b", ".", "2", "c", "3", "d", ".", "4", "e", "5", "f">>

MacB == <<"0", "A", ":", "1", "B", ":", "2", "C", ":", "3", "D", ":", "4", "E", ":", "5", "F">>

MacB_lower == <<"0", "a", ":", "1", "b", ":", "2", "c", ":", "3", "d", ":", "4", "e", ":", "5", "f">>

MacShort == <<"1", "2", ":", "3", "4", ":", "5", "6", ":", "7", "8", ":", "9", "A">>

MacSigned == <<"+", "A", "A", "B", "B", "C", "C", "D", "D", "E", "E", "F">>

MacPrefixed == <<"0", "x", "A", "A", "B", "B", "C", "C", "D", "D", "E", "E">>

MacUnderscore == <<"A", "A", "B", "B", "_", "C", "C", "D", "D", "E", "E", "F">>

MacTab == <<"\t", "A", "A", "B", "B", "C", "C", "D", "D", "E", "E", "F">>

MacNonHex == <<"G", "G", ":", "B", "B", ":", "C", "C", ":", "D", "D", ":", "E", "E", ":", "F", "F">>

Ip_10_0_0_5 == <<"1", "0", ".", "0", ".", "0", ".", "5">>

Ip_10_0_0_6 == <<"1", "0", ".", "0", ".", "0", ".", "6">>

Ip_10_0_0_1 == <<"1", "0", ".", "0", ".", "0", ".", "1">>

Ip_bad == <<"1", "0", ".", "0", ".", "0", ".", "2", "5", "6">>

Ip_v6 == <<"f", "e", "8", "0", ":", ":", "1">>

Ip_short == <<"1", "0", ".", "0", ".", "0">>

Mask_24 == <<"2", "5", "5", ".", "2", "5", "5", ".", "2", "5", "5", ".", "0">>

Mask_prefix == <<"2", "4">>

Mask_host == <<"0", ".", "0", ".", "0", ".", "2", "5", "5">>

Mask_mixed == <<"2", "5", "5", ".", "0", ".", "2", "5", "5", ".", "0">>

Mask_33 == <<"3", "3">>

Lease_42 == <<"1", "9", "2", ".", "1", "6", "8", ".", "1", "0", "0", ".", "4", "2">>

Lease_43 == <<"1", "9", "2", ".", "1", "6", "8", ".", "1", "0", "0", ".", "4", "3">>

Lease_44 == <<"1", "9", "2", ".", "1", "6", "8", ".", "1", "0", "0", ".", "4", "4">>

LeaseTime == <<"1", "7", "0", "0", "0", "0", "0", "0", "0", "0">>

OtherMac == <<"0", "0", ":", "1", "1", ":", "2", "2", ":", "3", "3", ":", "4", "4", ":", "5", "5">>

HostName == <<"b", "m", "c">>


(***************************************************************************)
(* parse_csv_file                                                          *)
(***************************************************************************)
MinColumns == 4

\* only the static address is validated
ParseRow_GatewayUnchecked(row) ==
    IF Len(row) < MinColumns THEN <<>>
    ELSE LET mac == row[1]
             static_ip == row[2]
             netmask == row[3]
             gateway == row[4]
             fmac == format_mac_address(mac)
         IN  IF fmac = None THEN <<>>
             ELSE IF ~validate_ip_address(static_ip)
                  THEN <<>>
             ELSE IF ~netmask_valid(netmask) THEN <<>>
             ELSE <<<<fmac, static_ip, netmask, gateway>>>>

\* one pass of the for loop over a row: the entry appended, or <<>> after
\* a continue
ParseRow(row) ==
    IF Len(row) < MinColumns THEN <<>>
    ELSE LET mac == row[1]
             static_ip == row[2]
             netmask == row[3]
             gateway == row[4]
             fmac == format_mac_address(mac)
         IN  IF fmac = None THEN <<>>
             ELSE IF ~(validate_ip_address(static_ip) /\ validate_ip_address(gateway))
                  THEN <<>>
             ELSE IF ~netmask_valid(netmask) THEN <<>>
             ELSE <<<<fmac, static_ip, netmask, gateway>>>>

\* the for loop: valid_entries after the rows, in the order read
RECURSIVE ParseRows(_, _)
ParseRows(rows, acc) ==
    IF rows = <<>> THEN acc
    ELSE ParseRows(Tail(rows), acc \o ParseRow(Head(rows)))

\* exit is TRUE when the call ends in sys.exit(1): no header to read
\* (StopIteration, caught as Exception) or a header of fewer than 4 columns
parse_csv_file(file) ==
    IF file = <<>> THEN [exit |-> TRUE, entries |-> <<>>]
    ELSE IF Len(Head(file)) < MinColumns THEN [exit |-> TRUE, entries |-> <<>>]
    ELSE [exit |-> FALSE, entries |-> ParseRows(Tail(file), <<>>)]

(***************************************************************************)
(* get_dhcp_ip                                                             *)
(***************************************************************************)
\* lease.split(): the fields between runs of whitespace
RECURSIVE SplitWhitespace(_)
SplitWhitespace(s) ==
    LET t == LStrip(s)
    IN  IF t = <<>> THEN <<>>
        ELSE LET ends == {i \in 1..Len(t) : t[i] \in PyWhitespace}
                 k == IF ends = {} THEN Len(t) + 1
                      ELSE CHOOSE i \in ends : \A j \in ends : i <= j
             IN  <<SubSeq(t, 1, k - 1)>> \o SplitWhitespace(SubSeq(t, k, Len(t)))

\* the comparison made without lower()
RECURSIVE ScanLeases_CaseSensitive(_, _)
ScanLeases_CaseSensitive(mac_addr, leases) ==
    IF leases = <<>> THEN None
    ELSE LET parts == SplitWhitespace(Head(leases))
         IN  IF Len(parts) >= 3 /\ mac_addr = parts[2]
             THEN parts[3]
             ELSE ScanLeases_CaseSensitive(mac_addr, Tail(leases))

\* the for loop over the lines read
RECURSIVE ScanLeases(_, _)
ScanLeases(mac_addr, leases) ==
    IF leases = <<>> THEN None
    ELSE LET parts == SplitWhitespace(Head(leases))
         IN  IF Len(parts) >= 3 /\ Lower(mac_addr) = Lower(parts[2])
             THEN parts[3]
             ELSE ScanLeases(mac_addr, Tail(leases))

\* a missing file and an exception while reading both end in return None
get_dhcp_ip(mac_addr, file) ==
    IF ~file.exists THEN None
    ELSE IF ~file.readable THEN None
    ELSE ScanLeases(mac_addr, file.lines)

(***************************************************************************)
(* configure_ipmi_bash                                                     *)
(***************************************************************************)
\* what the script's file and the script can do to one call
ScriptWorlds == {"missing", "chmod_fails", "exec_fails", "exit_nonzero", "exit_zero"}

\* "True" or "False" returned, or "raise": os.chmod and subprocess.run raise
\* OSError, and only CalledProcessError is caught
configure_ipmi_bash(world) ==
    CASE world = "missing" -> "False"
      [] world = "chmod_fails" -> "raise"
      [] world = "exec_fails" -> "raise"
      [] world = "exit_nonzero" -> "False"
      [] world = "exit_zero" -> "True"

(***************************************************************************)
(* Inputs                                                                  *)
(***************************************************************************)
\* sequences over S of length 0..n
SeqsUpTo(S, n) == UNION {[1..k -> S] : k \in 0..n}

Header == <<<<"M", "A", "C">>, <<"I", "P">>, <<"N", "M">>, <<"G", "W">>>>

ShortHeader == <<<<"M", "A", "C">>, <<"I", "P">>, <<"N", "M">>>>

RowA == <<MacA_dashes, Ip_10_0_0_5, Mask_24, Ip_10_0_0_1>>

RowB == <<MacB_dots, Ip_10_0_0_6, Mask_prefix, Ip_10_0_0_1>>

RowShortMac == <<MacShort, Ip_10_0_0_5, Mask_24, Ip_10_0_0_1>>

RowBadIp == <<MacA, Ip_bad, Mask_24, Ip_10_0_0_1>>

RowBadGateway == <<MacA, Ip_10_0_0_5, Mask_24, Ip_short>>

RowBadMask == <<MacB, Ip_10_0_0_6, Mask_mixed, Ip_10_0_0_1>>

RowThreeFields == <<MacA, Ip_10_0_0_5, Mask_24>>

RowFiveFields == <<MacB_lower, Ip_10_0_0_6, Mask_24, Ip_10_0_0_1, HostName>>

\* the rows of the mapping files of a run
MaxRows == 2

RunRows == {RowA, RowB, RowShortMac}

RunFiles ==
    {<<Header>> \o rows : rows \in SeqsUpTo(RunRows, MaxRows)}
    \cup {<<>>, <<ShortHeader, RowA>>}

\* a line of the lease file
Line(fields) ==
    LET RECURSIVE Join(_)
        Join(fs) == IF Len(fs) = 1 THEN fs[1]
                    ELSE fs[1] \o <<" ">> \o Join(Tail(fs))
    IN  Join(fields) \o <<"\n">>

NoFile == [exists |-> FALSE, readable |-> FALSE, lines |-> <<>>]

Unreadable == [exists |-> TRUE, readable |-> FALSE, lines |-> <<>>]

LeaseFile(lines) == [exists |-> TRUE, readable |-> TRUE, lines |-> lines]

\* a lease of another device, a two-field line naming A, then A's lease
\* twice with different addresses
LeasesA ==
    LeaseFile(<<Line(<<LeaseTime, OtherMac, Lease_44, HostName>>),
                Line(<<LeaseTime, MacA_lower>>),
                Line(<<LeaseTime, MacA_lower, Lease_42, HostName>>),
                Line(<<LeaseTime, MacA, Lease_43>>)>>)

\* B's lease in upper case before A's
LeasesBA ==
    LeaseFile(<<Line(<<LeaseTime, MacB, Lease_43, HostName>>),
                <<"\n">>,
                Line(<<LeaseTime, MacA_lower, Lease_42, HostName>>)>>)

LeaseStates == {NoFile, Unreadable, LeaseFile(<<>>), LeasesA, LeasesBA}

(***************************************************************************)
(* main: the run                                                           *)
(***************************************************************************)
MaxAttempts == 5

\* parse_csv_file(csv_file) for the mapping files of a run, computed once
ParsedRunFile == [file \in RunFiles |-> parse_csv_file(file)]

\* the hardware addresses of the entries of a run
RunMacs ==
    UNION {{ParsedRunFile[file].entries[k][1] :
                k \in 1..Len(ParsedRunFile[file].entries)} : file \in RunFiles}

\* get_dhcp_ip(mac, leases_file) for the entries and lease files of a run,
\* computed once
LeaseLookup ==
    [mac \in RunMacs, file \in LeaseStates |-> get_dhcp_ip(mac, file)]

RunVars == <<pc, trace, exit_status, valid_entries, iface, pool, leases_file,
             idx, phase, attempts, dhcp_ip, first_read, scans, sleeps,
             total_scans, resolved, calls, success_count>>

LoopVars == <<idx, phase, attempts, dhcp_ip, first_read, scans, sleeps>>

FunctionVars == <<mac_address, formatted_mac, parsed>>

\* the process before main() is entered
RunAtStart ==
    /\ pc = "Idle"
    /\ trace = <<"Idle">>
    /\ exit_status = <<>>
    /\ valid_entries = <<>>
    /\ iface = "untouched"
    /\ pool = "none"
    /\ leases_file = NoFile
    /\ idx = 0
    /\ phase = "resolve"
    /\ attempts = 0
    /\ dhcp_ip = None
    /\ first_read = NoFile
    /\ scans = 0
    /\ sleeps = 0
    /\ total_scans = 0
    /\ resolved = <<>>
    /\ calls = <<>>
    /\ success_count = 0

Init ==
    /\ csv_file \in RunFiles
    /\ mac_address = <<>>
    /\ formatted_mac = <<>>
    /\ parsed = <<>>
    /\ RunAtStart

Goto(state) ==
    /\ pc' = state
    /\ trace' = Append(trace, state)

\* sys.exit(1), and an exception nothing catches: the process ends with
\* status 1
Fail ==
    /\ Goto("Failed")
    /\ exit_status' = <<1>>

\* the for loop takes entry i and runs lines 325-326, or is over
BeginEntry(i) ==
    /\ idx' = i
    /\ phase' = "resolve"
    /\ dhcp_ip' = None
    /\ attempts' = MaxAttempts
    /\ first_read' = NoFile
    /\ scans' = 0
    /\ sleeps' = 0

\* setup_environment and the reads of config: any check failing, or a
\* missing key, ends the process
SetupEnvironment ==
    /\ pc = "Idle"
    /\ \E ok \in BOOLEAN :
        IF ok THEN Goto("Validating") /\ UNCHANGED exit_status
        ELSE Fail
    /\ UNCHANGED <<csv_file, FunctionVars, valid_entries, iface, pool,
                   leases_file, LoopVars, total_scans, resolved, calls,
                   success_count>>

\* the run goes on with no valid entry
ValidateMappingFile_NoEmptyCheck ==
    /\ pc = "Validating"
    /\ valid_entries' = ParsedRunFile[csv_file].entries
    /\ IF ParsedRunFile[csv_file].exit
       THEN Fail
       ELSE Goto("BootstrappingNetwork") /\ UNCHANGED exit_status
    /\ UNCHANGED <<csv_file, FunctionVars, iface, pool, leases_file, LoopVars,
                   total_scans, resolved, calls, success_count>>

\* parse_csv_file and the check of its result
ValidateMappingFile ==
    /\ pc = "Validating"
    /\ valid_entries' = ParsedRunFile[csv_file].entries
    /\ IF ParsedRunFile[csv_file].exit \/ valid_entries' = <<>>
       THEN Fail
       ELSE Goto("BootstrappingNetwork") /\ UNCHANGED exit_status
    /\ UNCHANGED <<csv_file, FunctionVars, iface, pool, leases_file, LoopVars,
                   total_scans, resolved, calls, success_count>>

\* the link-up command run with check=False
SetupEth0_LinkUpUnchecked ==
    /\ pc = "BootstrappingNetwork"
    /\ \E flush_ok \in BOOLEAN, add_ok \in BOOLEAN, up_ok \in BOOLEAN :
        /\ iface' = IF add_ok /\ up_ok THEN "up"
                    ELSE IF add_ok THEN "addressed"
                    ELSE IF flush_ok THEN "flushed"
                    ELSE iface
        /\ IF add_ok
           THEN Goto("StartingPool") /\ UNCHANGED exit_status
           ELSE Fail
    /\ UNCHANGED <<csv_file, FunctionVars, valid_entries, pool, leases_file,
                   LoopVars, total_scans, resolved, calls, success_count>>

\* setup_eth0_for_dhcp: the flush may fail, the other two commands may not
SetupEth0 ==
    /\ pc = "BootstrappingNetwork"
    /\ \E flush_ok \in BOOLEAN, add_ok \in BOOLEAN, up_ok \in BOOLEAN :
        /\ iface' = IF add_ok /\ up_ok THEN "up"
                    ELSE IF add_ok THEN "addressed"
                    ELSE IF flush_ok THEN "flushed"
                    ELSE iface
        /\ IF add_ok /\ up_ok
           THEN Goto("StartingPool") /\ UNCHANGED exit_status
           ELSE Fail
    /\ UNCHANGED <<csv_file, FunctionVars, valid_entries, pool, leases_file,
                   LoopVars, total_scans, resolved, calls, success_count>>

\* the steps of create_dhcp_pool that can end the process (the effective
\* uid was checked in setup_environment)
PoolFailures == {"makedirs", "write", "which", "restart"}

\* create_dhcp_pool
CreateDhcpPool ==
    /\ pc = "StartingPool"
    /\ \E outcome \in PoolFailures \cup {"started"} :
        /\ pool' = IF outcome = "started" THEN "running"
                   ELSE IF outcome \in {"which", "restart"} THEN "configured"
                   ELSE pool
        /\ IF outcome = "started"
           THEN Goto("AwaitingPoolWarmup") /\ UNCHANGED exit_status
           ELSE Fail
    /\ UNCHANGED <<csv_file, FunctionVars, valid_entries, iface, leases_file,
                   LoopVars, total_scans, resolved, calls, success_count>>

\* time.sleep(10), then the loop is entered; the DHCP server writes the
\* lease file meanwhile
Warmup ==
    /\ pc = "AwaitingPoolWarmup"
    /\ Goto("ProcessingEntries")
    /\ leases_file' \in LeaseStates
    /\ success_count' = 0
    /\ BeginEntry(1)
    /\ UNCHANGED <<csv_file, FunctionVars, exit_status, valid_entries, iface,
                   pool, total_scans, resolved, calls>>

\* the loop runs while attempts >= 0
LeaseAttempt_OneMore ==
    /\ pc = "ProcessingEntries"
    /\ idx <= Len(valid_entries)
    /\ phase = "resolve"
    /\ attempts >= 0
    /\ dhcp_ip' = LeaseLookup[valid_entries[idx][1], leases_file]
    /\ scans' = scans + 1
    /\ total_scans' = total_scans + 1
    /\ first_read' = IF scans = 0 THEN leases_file ELSE first_read
    /\ IF dhcp_ip' # None
       THEN /\ phase' = "after"
            /\ UNCHANGED <<sleeps, attempts, leases_file>>
       ELSE /\ sleeps' = sleeps + 1
            /\ attempts' = attempts - 1
            /\ leases_file' \in LeaseStates
            /\ phase' = IF attempts' >= 0 THEN "resolve" ELSE "after"
    /\ resolved' = IF phase' = "after" THEN Append(resolved, dhcp_ip')
                   ELSE resolved
    /\ UNCHANGED <<csv_file, FunctionVars, pc, trace, exit_status,
                   valid_entries, iface, pool, idx, calls, success_count>>

\* one pass of the while loop: the scan and, with no lease found, the sleep
\* (during which the lease file may change) and the decrement
LeaseAttempt ==
    /\ pc = "ProcessingEntries"
    /\ idx <= Len(valid_entries)
    /\ phase = "resolve"
    /\ attempts > 0
    /\ dhcp_ip' = LeaseLookup[valid_entries[idx][1], leases_file]
    /\ scans' = scans + 1
    /\ total_scans' = total_scans + 1
    /\ first_read' = IF scans = 0 THEN leases_file ELSE first_read
    /\ IF dhcp_ip' # None
       THEN /\ phase' = "after"
            /\ UNCHANGED <<sleeps, attempts, leases_file>>
       ELSE /\ sleeps' = sleeps + 1
            /\ attempts' = attempts - 1
            /\ leases_file' \in LeaseStates
            /\ phase' = IF attempts' > 0 THEN "resolve" ELSE "after"
    /\ resolved' = IF phase' = "after" THEN Append(resolved, dhcp_ip')
                   ELSE resolved
    /\ UNCHANGED <<csv_file, FunctionVars, pc, trace, exit_status,
                   valid_entries, iface, pool, idx, calls, success_count>>

\* the value configure_ipmi_bash returns is not looked at
ConfigureDevice_CountsEveryCall ==
    /\ pc = "ProcessingEntries"
    /\ idx <= Len(valid_entries)
    /\ phase = "after"
    /\ dhcp_ip # None
    /\ \E world \in ScriptWorlds :
        LET entry == valid_entries[idx]
            result == configure_ipmi_bash(world)
        IN  /\ calls' = Append(calls,
                    [entry |-> idx,
                     args |-> <<dhcp_ip, entry[2], entry[3], entry[4]>>,
                     ran |-> world \in {"exit_nonzero", "exit_zero"},
                     result |-> result])
            /\ IF result = "raise"
               THEN /\ Fail
                    /\ UNCHANGED <<LoopVars, success_count, leases_file>>
               ELSE /\ success_count' = success_count + 1
                    /\ BeginEntry(idx + 1)
                    /\ leases_file' \in LeaseStates
                    /\ UNCHANGED <<pc, trace, exit_status>>
    /\ UNCHANGED <<csv_file, FunctionVars, valid_entries, iface, pool,
                   total_scans, resolved>>

\* a lease was found: configure_ipmi_bash with the entry's fields
ConfigureDevice ==
    /\ pc = "ProcessingEntries"
    /\ idx <= Len(valid_entries)
    /\ phase = "after"
    /\ dhcp_ip # None
    /\ \E world \in ScriptWorlds :
        LET entry == valid_entries[idx]
            result == configure_ipmi_bash(world)
        IN  /\ calls' = Append(calls,
                    [entry |-> idx,
                     args |-> <<dhcp_ip, entry[2], entry[3], entry[4]>>,
                     ran |-> world \in {"exit_nonzero", "exit_zero"},
                     result |-> result])
            /\ IF result = "raise"
               THEN /\ Fail
                    /\ UNCHANGED <<LoopVars, success_count, leases_file>>
               ELSE /\ success_count' =
                            IF result = "True" THEN success_count + 1
                            ELSE success_count
                    /\ BeginEntry(idx + 1)
                    /\ leases_file' \in LeaseStates
                    /\ UNCHANGED <<pc, trace, exit_status>>
    /\ UNCHANGED <<csv_file, FunctionVars, valid_entries, iface, pool,
                   total_scans, resolved>>

\* no lease after the attempts: the entry is skipped
SkipEntry ==
    /\ pc = "ProcessingEntries"
    /\ idx <= Len(valid_entries)
    /\ phase = "after"
    /\ dhcp_ip = None
    /\ BeginEntry(idx + 1)
    /\ UNCHANGED <<csv_file, FunctionVars, pc, trace, exit_status,
                   valid_entries, iface, pool, leases_file, total_scans,
                   resolved, calls, success_count>>

\* the loop is over: the summary is logged and main returns
ReportSummary ==
    /\ pc = "ProcessingEntries"
    /\ idx > Len(valid_entries)
    /\ Goto("Done")
    /\ exit_status' = <<0>>
    /\ UNCHANGED <<csv_file, FunctionVars, valid_entries, iface, pool,
                   leases_file, LoopVars, total_scans, resolved, calls,
                   success_count>>

Next ==
    \/ SetupEnvironment
    \/ ValidateMappingFile
    \/ SetupEth0
    \/ CreateDhcpPool
    \/ Warmup
    \/ LeaseAttempt
    \/ ConfigureDevice
    \/ SkipEntry
    \/ ReportSummary

Spec == Init /\ [][Next]_vars

\* the process is single-threaded and every call returns: a step that can
\* be taken is taken
FairSpec == Spec /\ WF_vars(Next)

(***************************************************************************)
(* format_mac_address on its own                                           *)
(***************************************************************************)
\* how far the length of an unseparated input may be from 12
MacSlack == 1

HexCycle == <<"0", "a", "1", "B", "2", "c", "3", "D", "4", "e", "5", "F">>

HexBody(n) == [i \in 1..n |-> HexCycle[((i - 1) % Len(HexCycle)) + 1]]

MacBases ==
    {HexBody(n) : n \in (MacLen - MacSlack)..(MacLen + MacSlack)}
    \cup {MacA, MacA_dashes, MacB_dots}

MacAlphabet == {"0", "F", "f", "G", "x", "X", "+", "-", "_", "\t", " ", ":", "."}

ReplaceAt(s, i, c) == [s EXCEPT ![i] = c]

InsertAt(s, i, c) == SubSeq(s, 1, i - 1) \o <<c>> \o SubSeq(s, i, Len(s))

\* a base, or a base with one character replaced or inserted
MacInputs ==
    UNION {{b} \cup {ReplaceAt(b, i, c) : i \in 1..Len(b), c \in MacAlphabet}
               \cup {InsertAt(b, i, c) : i \in 1..(Len(b) + 1), c \in MacAlphabet}
           : b \in MacBases}

InitMac ==
    /\ mac_address \in MacInputs
    /\ formatted_mac = <<>>
    /\ csv_file = <<>>
    /\ parsed = <<>>
    /\ RunAtStart

CallFormatMac ==
    /\ formatted_mac = <<>>
    /\ formatted_mac' = <<format_mac_address(mac_address)>>
    /\ UNCHANGED <<mac_address, csv_file, parsed, RunVars>>

SpecMac == InitMac /\ [][CallFormatMac]_vars

(***************************************************************************)
(* parse_csv_file on its own                                               *)
(***************************************************************************)
MaxParseRows == 3

ParseRowSet == {RowA, RowB, RowShortMac, RowBadIp, RowBadGateway, RowBadMask,
                RowThreeFields, RowFiveFields}

FieldMacs == {MacA_dashes, MacB_dots, MacShort, MacNonHex, MacSigned,
              MacPrefixed, MacUnderscore, MacTab}

FieldIps == {Ip_10_0_0_5, Ip_bad, Ip_short, Ip_v6}

FieldMasks == {Mask_24, Mask_prefix, Mask_host, Mask_mixed, Mask_33}

\* files of a few rows in every order, and one-row files of every field
ParseFiles ==
    {<<h>> \o rows : h \in {Header, ShortHeader},
                     rows \in SeqsUpTo(ParseRowSet, MaxParseRows)}
    \cup {<<Header, <<m, ip, mask, gw>>>> :
              m \in FieldMacs, ip \in FieldIps, mask \in FieldMasks, gw \in FieldIps}
    \cup {<<>>}

InitParse ==
    /\ csv_file \in ParseFiles
    /\ parsed = <<>>
    /\ mac_address = <<>>
    /\ formatted_mac = <<>>
    /\ RunAtStart

CallParseCsvFile ==
    /\ parsed = <<>>
    /\ parsed' = <<parse_csv_file(csv_file)>>
    /\ UNCHANGED <<mac_address, formatted_mac, csv_file, RunVars>>

SpecParse == InitParse /\ [][CallParseCsvFile]_vars

(***************************************************************************)
(* Properties                                                              *)
(***************************************************************************)
Entered(state) == \E i \in 1..Len(trace) : trace[i] = state

Order == <<"Idle", "Validating", "BootstrappingNetwork", "StartingPool",
           "AwaitingPoolWarmup", "ProcessingEntries", "Done">>

\* C1: a per-entry failure never aborts the run: once entries are being
\* processed the run does not fail, every call of the Device Configurator
\* ends in a per-device value (configured or not), and the run that has
\* gone through the entries is Done with exit status 0.
C1_PerEntryFailureNeverAborts ==
    Entered("ProcessingEntries") =>
        /\ pc \in {"ProcessingEntries", "Done"}
        /\ \A j \in 1..Len(calls) : calls[j].result \in {"True", "False"}
        /\ (pc = "Done" <=> exit_status = <<0>>)
        /\ (pc = "ProcessingEntries" <=> exit_status = <<>>)

\* C2: when no attempt finds a lease for the entry, the resolution has made
\* exactly MaxAttempts scans and exactly MaxAttempts - 1 sleeps when it
\* reports NotFound.
C2_ScansAndOneFewerSleeps ==
    (pc = "ProcessingEntries" /\ phase = "after" /\ dhcp_ip = None) =>
        (scans = MaxAttempts /\ sleeps = MaxAttempts - 1)

\* C3: succeeded_count <= total_entries in every state, and a run whose
\* mapping file yields no valid entry fails with a nonzero status without
\* bootstrapping the interface, starting the pool, scanning the lease file
\* or configuring a device.
C3_RunSummaryInvariant ==
    /\ success_count <= Len(valid_entries)
    /\ (Entered("Validating") /\ pc # "Validating" /\ valid_entries = <<>>) =>
        /\ pc = "Failed"
        /\ exit_status = <<1>>
        /\ ~Entered("BootstrappingNetwork")
        /\ ~Entered("StartingPool")
        /\ ~Entered("ProcessingEntries")
        /\ iface = "untouched"
        /\ pool = "none"
        /\ total_scans = 0
        /\ resolved = <<>>
        /\ calls = <<>>

\* C3, the case: a mapping file of two rows, neither of them valid
C3_Witness ==
    /\ csv_file = <<Header, RowShortMac, RowShortMac>>
    /\ valid_entries = <<>>
    /\ trace = <<"Idle", "Validating", "Failed">>
    /\ exit_status = <<1>>

\* the states entered before a failure, if any
StatesBeforeFailure ==
    IF trace[Len(trace)] = "Failed" THEN SubSeq(trace, 1, Len(trace) - 1)
    ELSE trace

\* C4: the orchestrator enters Validating, BootstrappingNetwork,
\* StartingPool, AwaitingPoolWarmup, ProcessingEntries in that order; a
\* fatal failure of validation, of the interface bootstrap or of the pool
\* start takes the run to Failed with a nonzero status instead of to the
\* next state, and after it nothing runs: no lease is resolved and no
\* device is configured.
C4_OrderAndFatalFailures ==
    /\ pc = trace[Len(trace)]
    /\ StatesBeforeFailure = SubSeq(Order, 1, Len(StatesBeforeFailure))
    /\ Entered("BootstrappingNetwork") => valid_entries # <<>>
    /\ Entered("StartingPool") => iface = "up"
    /\ Entered("AwaitingPoolWarmup") => pool = "running"
    /\ (pc = "Failed" /\ ~Entered("ProcessingEntries")) =>
        /\ exit_status = <<1>>
        /\ total_scans = 0
        /\ resolved = <<>>
        /\ calls = <<>>
    /\ pc = "Failed" => ~ENABLED Next

\* C4, the case: the pool's service did not start, after the interface
\* was set up
C4_Witness ==
    /\ trace = <<"Idle", "Validating", "BootstrappingNetwork", "StartingPool",
                 "Failed">>
    /\ iface = "up"
    /\ pool = "configured"
    /\ exit_status = <<1>>

\* the well-formed records of a lease file naming a hardware address
\* whatever the case of the letters, by their line numbers
MatchingRecords(file, mac) ==
    IF ~(file.exists /\ file.readable) THEN {}
    ELSE {i \in 1..Len(file.lines) :
              LET fields == SplitWhitespace(file.lines[i])
              IN  Len(fields) >= 3 /\ Upper(fields[2]) = Upper(mac)}

\* C5: if the lease file as first read for the entry holds a well-formed
\* record whose field 2 is the entry's hardware address case-insensitively,
\* the resolution returns field 3 of the first such record, after one scan
\* and no sleep, and scans no more for the entry.
C5_FirstMatchWithoutSleep ==
    (pc = "ProcessingEntries" /\ idx <= Len(valid_entries) /\ scans >= 1
     /\ MatchingRecords(first_read, valid_entries[idx][1]) # {}) =>
        LET ms == MatchingRecords(first_read, valid_entries[idx][1])
            first == CHOOSE i \in ms : \A j \in ms : i <= j
        IN  /\ dhcp_ip = SplitWhitespace(first_read.lines[first])[3]
            /\ resolved[idx] = dhcp_ip
            /\ phase = "after"
            /\ scans = 1
            /\ sleeps = 0

\* C5, the case: A's lease, in lower case, after another device's lease and
\* a two-field line, and before a second lease of A
C5_Witness ==
    /\ pc = "ProcessingEntries"
    /\ idx = 1
    /\ valid_entries[1][1] = MacA
    /\ first_read = LeasesA
    /\ dhcp_ip = Lease_42
    /\ scans = 1
    /\ sleeps = 0

\* a row of at least 4 fields whose four fields pass their validations
RowPasses(row) ==
    /\ Len(row) >= 4
    /\ format_mac_address(row[1]) # None
    /\ validate_ip_address(row[2])
    /\ netmask_valid(row[3])
    /\ validate_ip_address(row[4])

\* the k-th smallest element of a set of numbers
RECURSIVE KthOf(_, _)
KthOf(S, k) ==
    LET least == CHOOSE i \in S : \A j \in S : i <= j
    IN  IF k = 1 THEN least ELSE KthOf(S \ {least}, k - 1)

CanonicalMac(m) ==
    /\ Len(m) = 17
    /\ \A k \in 1..17 : IF k % 3 = 0 THEN m[k] = ":" ELSE m[k] \in HexDigits

\* C7: every entry the Input Validator returns has a hardware address of
\* six colon-separated uppercase hex octets, a static address and a gateway
\* that are valid IPv4 addresses, and a valid IPv4 netmask (taken here in
\* any form IPv4Network accepts).
C7_EntriesSatisfyDataModel ==
    parsed # <<>> =>
        \A k \in 1..Len(parsed[1].entries) :
            LET e == parsed[1].entries[k]
            IN  /\ CanonicalMac(e[1])
                /\ IPv4Parses(e[2])
                /\ MakeNetmaskParses(e[3])
                /\ IPv4Parses(e[4])

\* the input without ':', '-', '.' and whitespace
WithoutSeparators(m) ==
    SelectSeq(m, LAMBDA c : c \notin ({":", "-", "."} \cup PyWhitespace))

\* C8: format_mac_address returns None for every input that is not exactly
\* 12 hexadecimal characters (0-9, A-F, a-f) once ':', '-', '.' and
\* whitespace are stripped.
C8_NonHexIsInvalid ==
    (formatted_mac # <<>>
     /\ ~(Len(WithoutSeparators(mac_address)) = 12
          /\ AllIn(WithoutSeparators(mac_address), HextetChars))) =>
        formatted_mac[1] = None

\* C9: the Device Configurator is called at most once per validated entry,
\* only for an entry whose lease resolution returned an address, with that
\* address and the entry's own static address, netmask and gateway; it is
\* never called for an entry whose resolution ended in NotFound; and
\* succeeded_count counts exactly the calls that succeeded.
C9_ConfiguratorCalls ==
    /\ \A j \in 1..Len(calls) :
        LET c == calls[j]
        IN  /\ c.entry \in 1..Len(valid_entries)
            /\ c.entry <= Len(resolved)
            /\ resolved[c.entry] # None
            /\ c.args = <<resolved[c.entry], valid_entries[c.entry][2],
                          valid_entries[c.entry][3], valid_entries[c.entry][4]>>
            /\ \A k \in 1..Len(calls) : calls[k].entry = c.entry => k = j
    /\ \A i \in 1..Len(resolved) :
        resolved[i] = None => \A j \in 1..Len(calls) : calls[j].entry # i
    /\ success_count = Cardinality({j \in 1..Len(calls) : calls[j].result = "True"})

\* C9, the case: the first entry skipped, the second configured
C9_Witness ==
    /\ pc = "Done"
    /\ resolved = <<None, Lease_43>>
    /\ Len(calls) = 1
    /\ calls[1].entry = 2
    /\ calls[1].args = <<Lease_43, Ip_10_0_0_6, Mask_prefix, Ip_10_0_0_1>>
    /\ calls[1].result = "True"
    /\ success_count = 1

\* the bounds of a run on its scans and on its pass over the entries
ScansBounded ==
    /\ scans <= MaxAttempts
    /\ total_scans <= MaxAttempts * Len(valid_entries)
    /\ Len(resolved) <= Len(valid_entries)
    /\ pc = "ProcessingEntries" =>
        Len(resolved) = (IF phase = "after" THEN idx ELSE idx - 1)
    /\ pc = "Done" =>
        /\ Len(resolved) = Len(valid_entries)
        /\ idx = Len(valid_entries) + 1

====
